---- MODULE Spec2Model ----
(***************************************************************************)
(* A model of the MCP scanner's detection-and-orchestration core:          *)
(*   - the three scan orchestrators of the repository                      *)
(*       "cli"    src/src/cli/scan.rs (sequential, Detector trait objects)  *)
(*       "engine" src/packages/mcp-sentinel-clone/src/engine/scanner.rs     *)
(*       "legacy" src/mcp-sentinel-clone/src/scanner.rs                     *)
(*     (the last two spawn one tokio task per file and join them in order), *)
(*   - the command's tail (severity filter, output, exit code),             *)
(*   - the suppression manager of src/src/suppression/mod.rs.               *)
(* Specifications: Spec (the scan pipeline), SpecSup (the suppression      *)
(* manager), SpecFn (functions and objects on inputs of their own),        *)
(* SpecProxy (the proxy's request handler).                                *)
(***************************************************************************)
EXTENDS Integers, Sequences, FiniteSets, Bags, TLC

\* ------------------------------------------------------------------ bounds
\* Entries the directory walk yields at most.
MaxFiles == 2
\* The wall clock runs from 0 to MaxClock.
MaxClock == 3
\* Rules in a suppression configuration at most.
MaxRules == 2
\* Findings in a list given to the batch filter at most.
MaxFindings == 2
\* Findings of one severity in a summarised list: 0..MaxCount, or WrapCount.
MaxCount == 3
\* Characters of a matched secret at most (and at least MaxSecretLen - 3).
MaxSecretLen == 12
\* Units (lines, tool definitions) in the content given to a detector, and
\* pattern matches in one unit, at most.
MaxHits == 2
\* Findings in a list that is given to the batch filter a second time at most.
MaxRefiltered == 1
\* Severity filters applied to one scan result at most.
MaxFilters == 2

\* --------------------------------------------------------------- vocabulary
Impls == {"cli", "engine", "legacy"}

Severities == {"Low", "Medium", "High", "Critical"}

\* Severity's order (declared in models/vulnerability.rs; Low < Medium < High < Critical).
SeverityRank(s) ==
    CASE s = "Low" -> 1
      [] s = "Medium" -> 2
      [] s = "High" -> 3
      [] s = "Critical" -> 4

\* v.severity >= min
AtOrAbove(s, min) == SeverityRank(s) >= SeverityRank(min)

\* The ordered detector list each orchestrator runs on a file.
\* command_injection is the engine's line-by-line detector;
\* command_injection_ast is the legacy scanner's detector of the same name,
\* a syntax-tree query for calls with a keyword argument.
DetectorsOf(i) ==
    IF i = "cli"
    THEN <<"tool_poisoning", "prompt_injection", "secrets">>
    ELSE IF i = "engine"
    THEN <<"secrets", "command_injection", "sensitive_file_access",
           "tool_poisoning", "prompt_injection">>
    ELSE <<"secrets", "command_injection_ast", "sensitive_file_access",
           "tool_poisoning", "prompt_injection">>

\* The severity the clone's detectors stamp on their findings.
DetSeverity(d) ==
    CASE d = "secrets" -> "Critical"
      [] d = "command_injection" -> "High"
      [] d = "command_injection_ast" -> "High"
      [] d = "sensitive_file_access" -> "High"
      [] d = "tool_poisoning" -> "Medium"
      [] d = "prompt_injection" -> "High"

\* File contents, abstracted to what the detectors find in them:
\*   "empty"  a 0-byte file
\*   "secret" one line holding one API key
\*   "mixed"  a .py file of five lines: a key on line 1, "ignore the previous
\*            instructions" on line 2, os.system(x) on line 3
Contents == {"empty", "secret", "mixed"}

\* The lines of a content on which detector d matches.
HitLines(d, c) ==
    CASE c = "secret" /\ d = "secrets" -> <<1>>
      [] c = "mixed" /\ d = "secrets" -> <<1>>
      [] c = "mixed" /\ d = "command_injection" -> <<3>>
      [] c = "mixed" /\ d \in {"tool_poisoning", "prompt_injection"} -> <<2>>
      [] OTHER -> <<>>

\* One successful detector call on file f with content c: its findings.
Detect(d, c, f) ==
    [k \in 1..Len(HitLines(d, c)) |->
        [file |-> f, det |-> d, line |-> HitLines(d, c)[k],
         severity |-> DetSeverity(d)]]

\* One entry of a walk:
\*   kind      "err" (the walk reports an error for it) or "file"
\*   readable  whether read_to_string succeeds on it
\*   content   what the detectors find in it
\*   over      whether its size exceeds scanning.max_file_size
\*   binary    whether more than 1% of its first 8192 bytes are NUL
\*   excluded  whether its path contains a configured exclusion pattern
\* Directories, which every orchestrator steps over, are left out of the walk.
Entry(kind, readable, content, over, binary, excluded) ==
    [kind |-> kind, readable |-> readable, content |-> content,
     over |-> over, binary |-> binary, excluded |-> excluded]

\* What the walk of a scan yields for one entry: a walk error, or a text file
\* of ordinary size and path (readable as text or not) with its content.
Entries ==
    {Entry("err", TRUE, "empty", FALSE, FALSE, FALSE)}
    \cup {Entry("file", TRUE, c, FALSE, FALSE, FALSE) : c \in Contents}
    \cup {Entry("file", FALSE, "empty", FALSE, FALSE, FALSE)}

UpTo(S, n) == UNION {[1..k -> S] : k \in 0..n}

VARIABLES
    impl,       \* which orchestrator runs
    target,     \* "dir" or "file": what the target path is
    walk,       \* what the directory walk yields, in order
    workers,    \* worker threads of the runtime
    pc,         \* the orchestrator's position
    tasks,      \* the spawned per-file tasks (engine, legacy), or the per-file iterations (cli)
    joined,     \* how many tasks the orchestrator has joined
    vulns,      \* result.vulnerabilities / all_vulnerabilities
    outcome,    \* what the scan returned: "none", "ok", or an error
    outOfOrder, \* whether some task completed before one spawned earlier
    exit,       \* the command's tail: filter, output, exit code
    now,        \* the wall clock
    config,     \* SuppressionManager.config.suppressions, in file order
    audit,      \* the entries the auditor has written
    last,       \* the call made on the suppression manager and what it returned
    call,       \* the function applied to an input of its own, and what it returned
    px          \* the proxy's handler: the request in hand and how far it got

scanVars == <<impl, target, walk, workers, pc, tasks, joined, vulns, outcome, outOfOrder, exit>>
supVars == <<now, config, audit, last>>
fnVars == <<call, px>>
vars == <<scanVars, supVars, fnVars>>

NoRes == [kind |-> "none", vulns |-> <<>>, calls |-> <<>>, read |-> FALSE]
NoExit == [done |-> FALSE, code |-> 0, min |-> "none", before |-> <<>>,
           fail_on |-> "absent", outputOk |-> TRUE]
NoCall == [kind |-> "none"]
NoFn == [fn |-> "none"]
NoReq == [pc |-> "idle"]

\* ------------------------------------------------------------ per-file scan
\* scan_content (cli): every detector of the list is called; a detector
\* that errors is logged and skipped.  fails: the detectors whose call errors.
RECURSIVE scan_content_from(_, _, _, _, _)
scan_content_from(k, c, f, dets, fails) ==
    IF k > Len(dets)
    THEN [kind |-> "ok", vulns |-> <<>>, calls |-> <<>>, read |-> TRUE]
    ELSE LET d == dets[k]
             rest == scan_content_from(k + 1, c, f, dets, fails)
         IN  IF d \in fails
             THEN [rest EXCEPT !.calls = <<[det |-> d, ok |-> FALSE]>> \o @]
             ELSE [rest EXCEPT !.calls = <<[det |-> d, ok |-> TRUE]>> \o @,
                               !.vulns = Detect(d, c, f) \o @]

scan_content(c, f, dets, fails) == scan_content_from(1, c, f, dets, fails)

\* Which detector call of scan_file returns Err, if any: the calls after the
\* first Err are never made, so one failing detector at most is chosen.
FirstFailure(dets) == {{}} \cup {{dets[k]} : k \in DOMAIN dets}

\* The detector calls of scan_file with each detector's findings put before
\* those already collected.
RECURSIVE scan_file_from_prepend(_, _, _, _, _)
scan_file_from_prepend(k, c, f, dets, fails) ==
    IF k > Len(dets)
    THEN [kind |-> "ok", vulns |-> <<>>, calls |-> <<>>, read |-> TRUE]
    ELSE LET d == dets[k]
         IN  IF d \in fails
             THEN [kind |-> "err", vulns |-> <<>>,
                   calls |-> <<[det |-> d, ok |-> FALSE]>>, read |-> TRUE]
             ELSE LET rest == scan_file_from_prepend(k + 1, c, f, dets, fails)
                  IN  [kind |-> rest.kind,
                       vulns |-> IF rest.kind = "ok"
                                 THEN rest.vulns \o Detect(d, c, f)
                                 ELSE <<>>,
                       calls |-> <<[det |-> d, ok |-> TRUE]>> \o rest.calls,
                       read |-> TRUE]

\* The detector calls of scan_file (engine, legacy): each is followed by `?`,
\* so the first error ends the function with that error.
RECURSIVE scan_file_from(_, _, _, _, _)
scan_file_from(k, c, f, dets, fails) ==
    IF k > Len(dets)
    THEN [kind |-> "ok", vulns |-> <<>>, calls |-> <<>>, read |-> TRUE]
    ELSE LET d == dets[k]
         IN  IF d \in fails
             THEN [kind |-> "err", vulns |-> <<>>,
                   calls |-> <<[det |-> d, ok |-> FALSE]>>, read |-> TRUE]
             ELSE LET rest == scan_file_from(k + 1, c, f, dets, fails)
                  IN  [kind |-> rest.kind,
                       vulns |-> IF rest.kind = "ok"
                                 THEN Detect(d, c, f) \o rest.vulns
                                 ELSE <<>>,
                       calls |-> <<[det |-> d, ok |-> TRUE]>> \o rest.calls,
                       read |-> TRUE]

\* scan_file with the read error returned instead of skipped.
scan_file_readerr(e, f, dets, fails) ==
    IF ~e.readable
    THEN [kind |-> "err", vulns |-> <<>>, calls |-> <<>>, read |-> FALSE]
    ELSE scan_file_from(1, e.content, f, dets, fails)

\* scan_file: a file that cannot be read as a string is skipped with Ok(vec![]).
scan_file(e, f, dets, fails) ==
    IF ~e.readable
    THEN [kind |-> "ok", vulns |-> <<>>, calls |-> <<>>, read |-> FALSE]
    ELSE scan_file_from(1, e.content, f, dets, fails)

\* The loop body of scan_target's directory branch (cli): a read error is
\* logged and the loop goes on; scan_content's result is unwrapped with `?`.
scan_dir_entry(e, f, dets, fails) ==
    IF ~e.readable
    THEN [kind |-> "ok", vulns |-> <<>>, calls |-> <<>>, read |-> FALSE]
    ELSE scan_content(e.content, f, dets, fails)

Range(q) == {q[k] : k \in DOMAIN q}

\* Merge with the new findings put in front.
Merge_front(acc, res) == res \o acc

\* Merge with the list assigned instead of extended.
Merge_assign(acc, res) == res

\* result.vulnerabilities.extend(res) / all_vulnerabilities.extend(vulns)
Merge(acc, res) == acc \o res

\* ------------------------------------------------------------ enumeration
\* is_binary_file: false when the file cannot be opened or read, or is empty.
is_binary_file(e) == e.binary

\* FileScanner::discover_files (cli): a walk error is warned about and the
\* walk goes on; directories, files above max_file_size and binary files are
\* skipped; the result is always Ok.
RECURSIVE discover_files_from(_, _)
discover_files_from(w, k) ==
    IF k > Len(w) THEN <<>>
    ELSE IF w[k].kind = "err" THEN discover_files_from(w, k + 1)
    ELSE IF w[k].kind # "file" THEN discover_files_from(w, k + 1)
    ELSE IF w[k].over THEN discover_files_from(w, k + 1)
    ELSE IF is_binary_file(w[k]) THEN discover_files_from(w, k + 1)
    ELSE <<k>> \o discover_files_from(w, k + 1)

discover_files(w) == discover_files_from(w, 1)

\* Scanner::is_excluded: path_str.contains(pattern) for some pattern.
is_excluded(e) == e.excluded

\* filter_entry(|e| !self.is_excluded(e.path())): the walk's entries whose
\* path is not excluded; the errors of the walk pass through.
filter_entry(w) ==
    SelectSeq([k \in 1..Len(w) |-> k],
              LAMBDA k : w[k].kind = "err" \/ ~is_excluded(w[k]))

\* Phase 1 of the engine's scan_directory: filter_entry drops the excluded
\* paths, filter_map(|e| e.ok()) drops walk errors,
\* filter(|e| e.file_type().is_file()) keeps the files.
files_to_scan(w) ==
    LET oks == SelectSeq(filter_entry(w), LAMBDA k : w[k].kind # "err")
    IN  SelectSeq(oks, LAMBDA k : w[k].kind = "file")

\* The position of the first walk error, or 0: the legacy walk loop's `entry?`.
FirstErr(w) ==
    IF \E k \in 1..Len(w) : w[k].kind = "err"
    THEN CHOOSE k \in 1..Len(w) :
            /\ w[k].kind = "err"
            /\ \A j \in 1..(k - 1) : w[j].kind # "err"
    ELSE 0

\* The files the legacy loop spawns a task for: those before the first error.
legacy_spawned(w) ==
    LET e == FirstErr(w)
        n == IF e = 0 THEN Len(w) ELSE e - 1
    IN  SelectSeq(filter_entry(w), LAMBDA k : k <= n /\ w[k].kind = "file")

Spawned(fs) == [k \in 1..Len(fs) |-> [file |-> fs[k], st |-> "spawned", res |-> NoRes]]

\* The loop left after its first element.
LastJoin_first(j) == j >= 1

\* `for task in tasks` / `for file in files` ends after the last element.
LastJoin(j) == j = Len(tasks)

\* ------------------------------------------------------------------- Init
\* A "file" target is walked as one file entry; a "missing" target makes the
\* walk yield one error for its root.
InitScan ==
    /\ impl \in Impls
    /\ target \in {"dir", "file", "missing"}
    /\ walk \in UpTo(Entries, MaxFiles)
    /\ target = "file" => Len(walk) = 1 /\ walk[1].kind = "file"
    /\ target = "missing" => Len(walk) = 1 /\ walk[1].kind = "err"
    /\ workers \in {1, MaxFiles}
    /\ impl = "cli" => workers = 1
    /\ pc = "start"
    /\ tasks = <<>>
    /\ joined = 0
    /\ vulns = <<>>
    /\ outcome = "none"
    /\ outOfOrder = FALSE
    /\ exit = NoExit
    /\ now = 0 /\ config = <<>> /\ audit = <<>> /\ last = NoCall
    /\ call = NoFn /\ px = NoReq

\* ------------------------------------------------- cli: scan_target (scan.rs)
\* Up to the directory loop: the target checks, the single-file branch
\* (whole), or discover_files.
CliStart ==
    /\ impl = "cli" /\ pc = "start"
    /\ \/ /\ target = "missing"
          /\ outcome' = "TargetNotFound" /\ pc' = "returned"
          /\ UNCHANGED <<tasks, vulns>>
       \/ /\ target = "file" /\ ~walk[1].readable
          /\ outcome' = "FileReadError" /\ pc' = "returned"
          /\ UNCHANGED <<tasks, vulns>>
       \/ /\ target = "file" /\ walk[1].readable
          /\ \E fails \in SUBSET Range(DetectorsOf("cli")) :
               LET r == scan_content(walk[1].content, 1, DetectorsOf("cli"), fails)
               IN  /\ tasks' = <<[file |-> 1, st |-> "done", res |-> r]>>
                   /\ vulns' = Merge(vulns, r.vulns)
          /\ outcome' = "ok" /\ pc' = "returned"
       \/ /\ target = "dir"
          /\ tasks' = Spawned(discover_files(walk))
          /\ IF discover_files(walk) = <<>>
             THEN outcome' = "ok" /\ pc' = "returned"
             ELSE outcome' = outcome /\ pc' = "loop"
          /\ vulns' = vulns
    /\ UNCHANGED <<impl, target, walk, workers, joined, outOfOrder, exit>>
    /\ UNCHANGED <<supVars, fnVars>>

\* One iteration of `for file in files`, and the return after the last.
CliScanNext ==
    /\ impl = "cli" /\ pc = "loop" /\ joined < Len(tasks)
    /\ \E fails \in SUBSET Range(DetectorsOf("cli")) :
         LET t == joined + 1
             r == scan_dir_entry(walk[tasks[t].file], tasks[t].file,
                                 DetectorsOf("cli"), fails)
         IN  /\ tasks' = [tasks EXCEPT ![t] = [@ EXCEPT !.st = "done", !.res = r]]
             /\ vulns' = Merge(vulns, r.vulns)
             /\ joined' = t
             /\ IF LastJoin(t)
                THEN outcome' = "ok" /\ pc' = "returned"
                ELSE outcome' = outcome /\ pc' = pc
    /\ UNCHANGED <<impl, target, walk, workers, outOfOrder, exit>>
    /\ UNCHANGED <<supVars, fnVars>>

\* ------------------------------------- engine, legacy: Scanner::scan_directory
\* engine, phases 1 and 2: collect the files, spawn one task for each.
EngineStart ==
    /\ impl = "engine" /\ pc = "start"
    /\ tasks' = Spawned(files_to_scan(walk))
    /\ IF files_to_scan(walk) = <<>>
       THEN outcome' = "ok" /\ pc' = "returned"
       ELSE outcome' = outcome /\ pc' = "join"
    /\ UNCHANGED <<impl, target, walk, workers, joined, vulns, outOfOrder, exit>>
    /\ UNCHANGED <<supVars, fnVars>>

\* legacy: the walk loop spawns as it goes; `entry?` returns the walk's first
\* error, leaving the tasks spawned so far detached.
LegacyStart ==
    /\ impl = "legacy" /\ pc = "start"
    /\ tasks' = Spawned(legacy_spawned(walk))
    /\ IF FirstErr(walk) # 0
       THEN outcome' = "WalkError" /\ pc' = "returned"
       ELSE IF legacy_spawned(walk) = <<>>
       THEN outcome' = "ok" /\ pc' = "returned"
       ELSE outcome' = outcome /\ pc' = "join"
    /\ UNCHANGED <<impl, target, walk, workers, joined, vulns, outOfOrder, exit>>
    /\ UNCHANGED <<supVars, fnVars>>

Running == {t \in 1..Len(tasks) : tasks[t].st = "running"}

\* A worker thread picks up a spawned task.
TaskStart(t) ==
    /\ impl # "cli" /\ ~exit.done
    /\ tasks[t].st = "spawned"
    /\ Cardinality(Running) < workers
    /\ tasks' = [tasks EXCEPT ![t].st = "running"]
    /\ UNCHANGED <<impl, target, walk, workers, pc, joined, vulns, outcome, outOfOrder, exit>>
    /\ UNCHANGED <<supVars, fnVars>>

\* The task runs scan_file to its end, or panics in a detector (JoinError).
TaskFinish(t) ==
    /\ impl # "cli" /\ ~exit.done
    /\ tasks[t].st = "running"
    /\ \/ \E fails \in FirstFailure(DetectorsOf(impl)) :
            tasks' = [tasks EXCEPT ![t] =
                        [@ EXCEPT !.st = "done",
                                  !.res = scan_file(walk[tasks[t].file], tasks[t].file,
                                                    DetectorsOf(impl), fails)]]
       \/ /\ walk[tasks[t].file].readable
          /\ tasks' = [tasks EXCEPT ![t] =
                        [@ EXCEPT !.st = "done",
                                  !.res = [NoRes EXCEPT !.kind = "panic", !.read = TRUE]]]
    /\ outOfOrder' = (outOfOrder \/ \E u \in 1..(t - 1) : tasks[u].st # "done")
    /\ UNCHANGED <<impl, target, walk, workers, pc, joined, vulns, outcome, exit>>
    /\ UNCHANGED <<supVars, fnVars>>

\* One iteration of `for task in tasks { let res = task.await??; ... }`, and
\* the return after the last.
JoinNext ==
    /\ impl # "cli" /\ pc = "join" /\ joined < Len(tasks)
    /\ LET t == joined + 1
           r == tasks[t].res
       IN  /\ tasks[t].st = "done"
           /\ IF r.kind = "panic"
              THEN /\ outcome' = "JoinError" /\ pc' = "returned"
                   /\ UNCHANGED <<vulns, joined>>
              ELSE IF r.kind = "err"
              THEN /\ outcome' = "DetectorError" /\ pc' = "returned"
                   /\ UNCHANGED <<vulns, joined>>
              ELSE /\ vulns' = Merge(vulns, r.vulns)
                   /\ joined' = t
                   /\ IF LastJoin(t)
                      THEN outcome' = "ok" /\ pc' = "returned"
                      ELSE outcome' = outcome /\ pc' = pc
    /\ UNCHANGED <<impl, target, walk, workers, tasks, outOfOrder, exit>>
    /\ UNCHANGED <<supVars, fnVars>>

\* ------------------------------------------------------- the command's tail
Count(vs, s) == Len(SelectSeq(vs, LAMBDA v : v.severity = s))

\* (critical * 40 + high * 20 + medium * 10 + low * 5) as u32: the sum is
\* computed in usize and the cast keeps its low 32 bits.  The value is held
\* as two 16-bit halves <<hi, lo>>, the counts being split the same way.
as_u32(critical, high, medium, low) ==
    LET Hi(n) == n \div 65536
        Lo(n) == n % 65536
        los == Lo(critical) * 40 + Lo(high) * 20 + Lo(medium) * 10 + Lo(low) * 5
        his == Hi(critical) * 40 + Hi(high) * 20 + Hi(medium) * 10 + Hi(low) * 5
               + los \div 65536
    IN  <<his % 65536, los % 65536>>

\* std::cmp::min(100, (..) as u32)
risk_score(critical, high, medium, low) ==
    LET raw == as_u32(critical, high, medium, low)
    IN  IF raw[1] = 0 /\ raw[2] < 100 THEN raw[2] ELSE 100

\* Summary::from_vulnerabilities
from_vulnerabilities(vs) ==
    LET critical == Count(vs, "Critical")
        high == Count(vs, "High")
        medium == Count(vs, "Medium")
        low == Count(vs, "Low")
    IN  [total_issues |-> Len(vs), critical |-> critical, high |-> high,
         medium |-> medium, low |-> low,
         risk_score |-> risk_score(critical, high, medium, low)]

\* Summary::has_issues_at_or_above
has_issues_at_or_above(sm, severity) ==
    CASE severity = "Critical" -> sm.critical > 0
      [] severity = "High" -> sm.critical > 0 \/ sm.high > 0
      [] severity = "Medium" -> sm.critical > 0 \/ sm.high > 0 \/ sm.medium > 0
      [] severity = "Low" -> sm.total_issues > 0

\* A retain that keeps only what is strictly above the minimum.
retain_above(vs, min) ==
    SelectSeq(vs, LAMBDA v : SeverityRank(v.severity) > SeverityRank(min))

\* vulnerabilities.retain(|v| v.severity >= min_severity)
retain(vs, min) == SelectSeq(vs, LAMBDA v : AtOrAbove(v.severity, min))

\* The clone's main, after scan_directory returned: retain, display, exit code.
MainFinish ==
    /\ impl # "cli" /\ pc = "returned" /\ ~exit.done
    /\ IF outcome = "ok"
       THEN \E severity \in Severities, fail_on \in Severities :
              /\ vulns' = retain(vulns, severity)
              /\ exit' = [done |-> TRUE,
                          code |-> IF \E k \in DOMAIN vulns' :
                                        AtOrAbove(vulns'[k].severity, fail_on)
                                   THEN 1 ELSE 0,
                          min |-> severity, before |-> vulns,
                          fail_on |-> fail_on, outputOk |-> TRUE]
       ELSE /\ exit' = [done |-> TRUE, code |-> 2, min |-> "none", before |-> vulns,
                        fail_on |-> "absent", outputOk |-> TRUE]
            /\ vulns' = vulns
    /\ UNCHANGED <<impl, target, walk, workers, pc, tasks, joined, outcome, outOfOrder>>
    /\ UNCHANGED <<supVars, fnVars>>

\* cli: run after scan_target returned, and main's mapping of its result.
\* severity and fail_on are strings Severity::from_str may not parse;
\* output_results may fail.
CliFinish ==
    /\ impl = "cli" /\ pc = "returned" /\ ~exit.done
    /\ IF outcome = "ok"
       THEN \E severity \in Severities \cup {"invalid"},
               fail_on \in Severities \cup {"invalid", "absent"},
               outputOk \in BOOLEAN :
              /\ vulns' = IF severity \in Severities THEN retain(vulns, severity) ELSE vulns
              /\ exit' = [done |-> TRUE,
                          code |-> IF ~outputOk THEN 2
                                   ELSE IF fail_on \in Severities
                                           /\ has_issues_at_or_above(
                                                from_vulnerabilities(vulns'), fail_on)
                                   THEN 1 ELSE 0,
                          min |-> IF severity \in Severities THEN severity ELSE "none",
                          before |-> vulns,
                          fail_on |-> IF outputOk THEN fail_on ELSE "absent",
                          outputOk |-> outputOk]
       ELSE /\ exit' = [done |-> TRUE, code |-> 2, min |-> "none", before |-> vulns,
                        fail_on |-> "absent", outputOk |-> TRUE]
            /\ vulns' = vulns
    /\ UNCHANGED <<impl, target, walk, workers, pc, tasks, joined, outcome, outOfOrder>>
    /\ UNCHANGED <<supVars, fnVars>>

NextScan ==
    \/ CliStart
    \/ CliScanNext
    \/ CliFinish
    \/ EngineStart
    \/ LegacyStart
    \/ \E t \in 1..Len(tasks) : TaskStart(t)
    \/ \E t \in 1..Len(tasks) : TaskFinish(t)
    \/ JoinNext
    \/ MainFinish

Spec == InitScan /\ [][NextScan]_vars

\* ------------------------------------------------------------ ground truth
\* The findings of the detector calls that succeeded, per the calls made.
RECURSIVE OfCalls(_, _, _)
OfCalls(calls, c, f) ==
    IF calls = <<>> THEN <<>>
    ELSE (IF Head(calls).ok THEN Detect(Head(calls).det, c, f) ELSE <<>>)
         \o OfCalls(Tail(calls), c, f)

Produced(t) == OfCalls(tasks[t].res.calls, walk[tasks[t].file].content, tasks[t].file)

BagOfSeq(q) == [x \in Range(q) |-> Cardinality({k \in DOMAIN q : q[k] = x})]

RECURSIVE ProducedUpTo(_)
ProducedUpTo(n) ==
    IF n = 0 THEN EmptyBag ELSE ProducedUpTo(n - 1) (+) BagOfSeq(Produced(n))

\* The finding list the scan returned, before the severity filter.
Result == IF exit.done THEN exit.before ELSE vulns

FileEntries == {k \in DOMAIN walk : walk[k].kind = "file"}
WalkFailed == \E k \in DOMAIN walk : walk[k].kind = "err"
SecretsOf(q) == Len(SelectSeq(q, LAMBDA v : v.det = "secrets"))

\* ------------------------------------------------------------------ claims
\* C1: a detector call that errors is absorbed: the other detectors of the
\* list still run on the file, their findings are kept, and the scan does
\* not fail for it.
C1_DetectorErrorAbsorbed ==
    /\ \A t \in DOMAIN tasks :
         (/\ tasks[t].st = "done"
          /\ \E k \in DOMAIN tasks[t].res.calls : ~tasks[t].res.calls[k].ok)
         => /\ tasks[t].res.kind = "ok"
            /\ Len(tasks[t].res.calls) = Len(DetectorsOf(impl))
            /\ tasks[t].res.vulns = Produced(t)
    /\ outcome # "DetectorError"

OtherCause ==
    \/ outcome \in {"WalkError", "TargetNotFound"}
    \/ /\ outcome \in {"DetectorError", "JoinError"}
       /\ joined < Len(tasks)
       /\ walk[tasks[joined + 1].file].readable

C3_WalkErrorAborts ==
    (pc = "returned" /\ WalkFailed) => outcome # "ok"

\* C4: a finished scan has no result only when enumerating the target failed.
C4_OnlyEnumerationAborts ==
    (pc = "returned" /\ outcome # "ok") => outcome \in {"WalkError", "TargetNotFound"}

\* C5: the result's findings are exactly the multiset union of the findings
\* produced for each enumerated file, so N files with one secret each give N
\* secret findings.
C5_MultisetUnion ==
    (outcome = "ok" /\ ~exit.done)
    => /\ {tasks[t].file : t \in DOMAIN tasks} = FileEntries
       /\ Len(tasks) = Cardinality(FileEntries)
       /\ BagOfSeq(Result) = ProducedUpTo(Len(tasks))
       /\ (\A t \in DOMAIN tasks : SecretsOf(Produced(t)) = 1)
            => SecretsOf(Result) = Len(tasks)

C5_Witness ==
    /\ outcome = "ok" /\ impl = "engine" /\ workers = MaxFiles
    /\ Len(tasks) = 2 /\ outOfOrder
    /\ \A t \in DOMAIN tasks : SecretsOf(Produced(t)) = 1
    /\ SecretsOf(Result) = 2

\* C6: when the severity filter has started, every per-file unit has
\* completed and has been merged into the list the filter works on.
C6_FilterAfterJoin ==
    (exit.done /\ outcome = "ok")
    => /\ \A t \in DOMAIN tasks : tasks[t].st = "done"
       /\ joined = Len(tasks) \/ (impl = "cli" /\ target = "file")
       /\ BagOfSeq(exit.before) = ProducedUpTo(Len(tasks))
       /\ \A k \in DOMAIN vulns : \E j \in DOMAIN exit.before : exit.before[j] = vulns[k]

C6_Witness ==
    /\ exit.done /\ outcome = "ok" /\ impl = "legacy"
    /\ Len(tasks) = 2 /\ outOfOrder
    /\ exit.min = "High"
    /\ Len(vulns) < Len(exit.before)

\* An operational error of the scan command: the target does not exist, the
\* walk of the target fails, the single file the cli is given cannot be
\* read, a worker dies, or the report cannot be written.
OperationalError ==
    \/ target = "missing"
    \/ WalkFailed
    \/ impl = "cli" /\ target = "file" /\ ~walk[1].readable
    \/ \E t \in DOMAIN tasks : tasks[t].res.kind = "panic"
    \/ ~exit.outputOk

\* A reported finding is at or above the --fail-on threshold.
QualifyingFinding ==
    /\ exit.fail_on \in Severities
    /\ \E k \in DOMAIN vulns : AtOrAbove(vulns[k].severity, exit.fail_on)

\* C12: the scan command exits with 2 exactly when an operational error
\* occurred, with 1 exactly when the scan succeeded and reports a finding at
\* or above the --fail-on threshold, and with 0 otherwise.
C12_ExitCodes ==
    exit.done
    => /\ exit.code = 2 <=> OperationalError
       /\ exit.code = 1 <=> (~OperationalError /\ QualifyingFinding)
       /\ exit.code = 0 <=> (~OperationalError /\ ~QualifyingFinding)

\* C13: for severities s1 < s2, a minimum-severity filter set to s1 keeps
\* every finding of severity s2 and one set to s2 removes every finding of
\* severity s1; the filter keeps exactly the findings at or above the
\* minimum, in their order.
C13_SeverityFilter ==
    (exit.done /\ exit.min \in Severities)
    => /\ \A s1, s2 \in Severities :
            SeverityRank(s1) < SeverityRank(s2)
            => /\ exit.min = s1
                    => \A k \in DOMAIN exit.before :
                          exit.before[k].severity = s2
                          => \E j \in DOMAIN vulns : vulns[j] = exit.before[k]
               /\ exit.min = s2
                    => \A j \in DOMAIN vulns : vulns[j].severity # s1
       /\ vulns = SelectSeq(exit.before,
                            LAMBDA v : SeverityRank(v.severity) >= SeverityRank(exit.min))

\* A scan that found a Medium, a High and a Critical finding, filtered at High.
C13_Witness ==
    /\ exit.done /\ exit.min = "High"
    /\ \E k \in DOMAIN exit.before : exit.before[k].severity = "Medium"
    /\ \E k \in DOMAIN vulns : vulns[k].severity = "High"
    /\ \E k \in DOMAIN vulns : vulns[k].severity = "Critical"
    /\ \A k \in DOMAIN vulns : vulns[k].severity # "Medium"

\* C19: scanning a 5-line file whose third line is os.system(x) yields a
\* command-injection finding with location line 3; a command-injection
\* finding for a match on line k reports line k.
C19_CommandInjectionLine ==
    \A t \in DOMAIN tasks :
       (/\ tasks[t].st = "done" /\ tasks[t].res.kind = "ok" /\ tasks[t].res.read
        /\ walk[tasks[t].file].content = "mixed"
        /\ \A c \in DOMAIN tasks[t].res.calls : tasks[t].res.calls[c].ok)
       => /\ \E k \in DOMAIN tasks[t].res.vulns :
               /\ tasks[t].res.vulns[k].det \in {"command_injection", "command_injection_ast"}
               /\ tasks[t].res.vulns[k].line = 3
          /\ \A k \in DOMAIN tasks[t].res.vulns :
               tasks[t].res.vulns[k].det \in {"command_injection", "command_injection_ast"}
               => tasks[t].res.vulns[k].line = 3

\* The position of detector d in the orchestrator's detector list.
DetIndex(d) == CHOOSE k \in DOMAIN DetectorsOf(impl) : DetectorsOf(impl)[k] = d

\* C24: on every file the detectors are called in the one order of the
\* orchestrator's list, and in the result the findings of one file are
\* grouped by detector, in that order.
C24_DetectorOrder ==
    /\ \A t \in DOMAIN tasks :
         \A k \in DOMAIN tasks[t].res.calls :
            tasks[t].res.calls[k].det = DetectorsOf(impl)[k]
    /\ (outcome = "ok" /\ ~exit.done)
         => \A j1, j2 \in DOMAIN vulns :
               (j1 < j2 /\ vulns[j1].file = vulns[j2].file)
               => DetIndex(vulns[j1].det) <= DetIndex(vulns[j2].det)

\* Two files scanned, each with the findings of three detectors.
C24_Witness ==
    /\ outcome = "ok" /\ ~exit.done /\ Len(tasks) = 2
    /\ \A t \in DOMAIN tasks :
         Cardinality({vulns[j].det : j \in {i \in DOMAIN vulns :
                                              vulns[i].file = tasks[t].file}}) = 3

\* C28: the order of findings in a directory scan's result is determined by
\* the order in which the files were enumerated: every finding of an
\* earlier-enumerated file precedes every finding of a later-enumerated
\* file, whatever order the per-file tasks finish in.
C28_EnumerationOrder ==
    (outcome = "ok" /\ ~exit.done)
    => /\ \A t, u \in DOMAIN tasks : t < u => tasks[t].file < tasks[u].file
       /\ \A j1, j2 \in DOMAIN vulns : j1 < j2 => vulns[j1].file <= vulns[j2].file

\* Two files with findings, the later-enumerated one finished first.
C28_Witness ==
    /\ outcome = "ok" /\ ~exit.done /\ impl = "engine" /\ outOfOrder
    /\ Len(tasks) = 2
    /\ \E j1, j2 \in DOMAIN vulns : vulns[j1].file < vulns[j2].file

\* ===================================================== suppression manager
\* The findings offered to the manager: id, location and vulnerability type.
\* Two of them share an id (ids are per detector call, not per scan).
Findings ==
    { [id |-> "SEC-001", file |-> "tests/a.py", line |-> 1, vuln_type |-> "secrets_leakage"],
      [id |-> "SEC-001", file |-> "src/b.py", line |-> 1, vuln_type |-> "secrets_leakage"],
      [id |-> "CI-001", file |-> "tests/a.py", line |-> 3, vuln_type |-> "command_injection"] }

\* The pattern lists of the rules a configuration is drawn from.
PatternLists ==
    { <<[type |-> "glob", value |-> "tests/**"],
        [type |-> "vuln_type", value |-> "secrets_leakage"]>>,
      <<[type |-> "file", value |-> "tests/a.py"], [type |-> "line", value |-> 3]>>,
      <<[type |-> "vuln_type", value |-> "secrets_leakage"]>> }

RuleId(ps) ==
    CASE ps[1].type = "glob" -> "SUP-001"
      [] ps[1].type = "file" -> "SUP-002"
      [] OTHER -> "SUP-003"

\* expires: None
NoExpiry == 0

\* A rule: id, optional expiry instant, patterns.
Rules ==
    { [id |-> RuleId(ps), expires |-> e, patterns |-> ps] :
        ps \in PatternLists, e \in {NoExpiry, 1, 2} }

\* Suppression::is_expired at clock reading t: the expiry lies in the past.
is_expired(r, t) == r.expires # NoExpiry /\ r.expires < t

\* A glob on the path: "dir/**" matches every path under dir/.
GlobMatch(g, path) ==
    CASE g = "tests/**" -> path \in {"tests/a.py"}
      [] OTHER -> FALSE

\* One pattern against a finding, by kind.
PatternMatches(p, v) ==
    CASE p.type = "glob" -> GlobMatch(p.value, v.file)
      [] p.type = "file" -> p.value = v.file
      [] p.type = "line" -> p.value = v.line
      [] p.type = "vuln_type" -> p.value = v.vuln_type

\* SuppressionMatcher::matches: every pattern of the rule matches.
matches(r, v) == \A k \in DOMAIN r.patterns : PatternMatches(r.patterns[k], v)

\* The entry SuppressionAuditor::log_suppression writes.
AuditEntry(r, v, t) == [rule |-> r.id, finding |-> v.id, at |-> t]

\* The test of one rule with the matcher's answer ignored.
RuleApplies_nomatch(r, v, t) == ~is_expired(r, t)

\* should_suppress's test of one rule at clock reading t: skip it when
\* expired, else ask the matcher.
RuleApplies(r, v, t) == ~is_expired(r, t) /\ matches(r, v)

\* should_suppress without the early return: every rule is evaluated and
\* every rule that applies is logged.
RECURSIVE should_suppress_nostop(_, _, _, _, _, _)
should_suppress_nostop(k, rules, v, t, ticks, logOk) ==
    IF k > Len(rules)
    THEN [result |-> "false", by |-> 0, evaluated |-> <<>>, entries |-> <<>>, at |-> t]
    ELSE LET tk == IF ticks[k] THEN t + 1 ELSE t
             rest == should_suppress_nostop(k + 1, rules, v, tk, ticks, logOk)
         IN  IF RuleApplies(rules[k], v, tk)
             THEN [result |-> IF logOk THEN "true" ELSE "err",
                   by |-> k,
                   evaluated |-> <<k>> \o rest.evaluated,
                   entries |-> (IF logOk THEN <<AuditEntry(rules[k], v, tk)>> ELSE <<>>)
                               \o rest.entries,
                   at |-> rest.at]
             ELSE [rest EXCEPT !.evaluated = <<k>> \o @]

\* should_suppress from rule k on.  The clock is read by each is_expired
\* call; ticks[k] says whether it advanced since the previous reading.
\* logOk: whether log_suppression succeeds; its error is returned with `?`.
\* The value: the result, the rule that matched (0: none), the rules
\* evaluated, the audit entries written, the last clock reading.
RECURSIVE should_suppress_from(_, _, _, _, _, _)
should_suppress_from(k, rules, v, t, ticks, logOk) ==
    IF k > Len(rules)
    THEN [result |-> "false", by |-> 0, evaluated |-> <<>>, entries |-> <<>>, at |-> t]
    ELSE LET tk == IF ticks[k] THEN t + 1 ELSE t
         IN  IF RuleApplies(rules[k], v, tk)
             THEN [result |-> IF logOk THEN "true" ELSE "err",
                   by |-> k,
                   evaluated |-> <<k>>,
                   entries |-> IF logOk THEN <<AuditEntry(rules[k], v, tk)>> ELSE <<>>,
                   at |-> tk]
             ELSE LET rest == should_suppress_from(k + 1, rules, v, tk, ticks, logOk)
                  IN  [rest EXCEPT !.evaluated = <<k>> \o @]

should_suppress(rules, v, t, ticks, logOk) ==
    should_suppress_from(1, rules, v, t, ticks, logOk)

Ticks(n) == [1..n -> BOOLEAN]
NTicks(tk) == Cardinality({k \in DOMAIN tk : tk[k]})
NoTicks(n) == [k \in 1..n |-> FALSE]

\* filter_suppressions from finding k on: a finding is kept unless
\* should_suppress(v).unwrap_or(false) is true.  logOk[k]: whether the audit
\* write of finding k's check succeeds.  The clock readings of one batch are
\* taken at one instant t.
RECURSIVE filter_from(_, _, _, _, _)
filter_from(k, rules, vs, t, logOk) ==
    IF k > Len(vs)
    THEN [kept |-> <<>>, keep |-> <<>>, entries |-> <<>>]
    ELSE LET r == should_suppress(rules, vs[k], t, NoTicks(Len(rules)), logOk[k])
             rest == filter_from(k + 1, rules, vs, t, logOk)
             suppressed == IF r.result = "err" THEN FALSE ELSE r.result = "true"
         IN  [kept |-> (IF suppressed THEN <<>> ELSE <<vs[k]>>) \o rest.kept,
              keep |-> <<~suppressed>> \o rest.keep,
              entries |-> r.entries \o rest.entries]

filter_suppressions(rules, vs, t, logOk) == filter_from(1, rules, vs, t, logOk)

\* What filter_suppressions says about the number removed: an info! line,
\* written only when the number is positive; the count is not returned.
info_suppressed(original_count, filtered) ==
    LET suppressed_count == original_count - Len(filtered)
    IN  IF suppressed_count > 0 THEN <<suppressed_count>> ELSE <<>>

\* The clock at its j-th reading after t; ticks[i] says whether it advanced
\* between reading i - 1 and reading i.
ReadingAt(t, ticks, j) == t + Cardinality({i \in 1..j : ticks[i]})

\* get_active_suppressions().len(): the rules with !is_expired(), the clock
\* being read once per rule, from reading `first` on.
active_len(rules, t, ticks, first) ==
    Cardinality({k \in DOMAIN rules :
                   ~is_expired(rules[k], ReadingAt(t, ticks, first + k - 1))})

\* get_expired_suppressions().len()
expired_len(rules, t, ticks, first) ==
    Cardinality({k \in DOMAIN rules :
                   is_expired(rules[k], ReadingAt(t, ticks, first + k - 1))})

\* SuppressionManager::get_stats: total, then the active pass over the
\* rules, then the expired pass.
get_stats(rules, t, ticks) ==
    [total |-> Len(rules),
     active |-> active_len(rules, t, ticks, 1),
     expired |-> expired_len(rules, t, ticks, Len(rules) + 1)]

\* A configuration: up to MaxRules rules with distinct ids.
Configs ==
    {c \in UpTo(Rules, MaxRules) : \A i, j \in DOMAIN c : i # j => c[i].id # c[j].id}

InitSup ==
    /\ impl = "cli" /\ target = "dir" /\ walk = <<>> /\ workers = 1
    /\ pc = "start" /\ tasks = <<>> /\ joined = 0 /\ vulns = <<>>
    /\ outcome = "none" /\ outOfOrder = FALSE /\ exit = NoExit
    /\ now = 0
    /\ config \in Configs
    /\ audit = <<>>
    /\ last = NoCall
    /\ call = NoFn /\ px = NoReq

\* The wall clock advances before the manager is called.
Tick ==
    /\ now < MaxClock
    /\ last.kind = "none"
    /\ now' = now + 1
    /\ UNCHANGED <<config, audit, last>>
    /\ UNCHANGED <<scanVars, fnVars>>

\* One call of should_suppress on a finding.
ShouldSuppress ==
    /\ last = NoCall
    /\ \E v \in Findings, ticks \in Ticks(Len(config)), logOk \in BOOLEAN :
         /\ now + NTicks(ticks) <= MaxClock
         /\ LET r == should_suppress(config, v, now, ticks, logOk)
            IN  /\ audit' = audit \o r.entries
                /\ now' = r.at
                /\ last' = [kind |-> "check", vuln |-> v, t0 |-> now, t1 |-> r.at,
                            logOk |-> logOk, result |-> r.result, by |-> r.by,
                            evaluated |-> r.evaluated]
    /\ UNCHANGED config
    /\ UNCHANGED <<scanVars, fnVars>>

\* One call of filter_suppressions on a finding list.
FilterSuppressions ==
    /\ last = NoCall
    /\ \E vs \in UpTo(Findings, MaxFindings) :
       \E logOk \in [1..Len(vs) -> BOOLEAN] :
         LET r == filter_suppressions(config, vs, now, logOk)
         IN  /\ audit' = audit \o r.entries
             /\ last' = [kind |-> "filter", input |-> vs, t0 |-> now,
                         logOk |-> logOk, output |-> r.kept, keep |-> r.keep,
                         reported |-> info_suppressed(Len(vs), r.kept)]
    /\ UNCHANGED <<now, config>>
    /\ UNCHANGED <<scanVars, fnVars>>

\* filter_suppressions called on the list its previous call returned, with
\* the same rules, the clock having advanced by d since that call.
FilterAgain ==
    /\ last.kind = "filter" /\ Len(last.input) <= MaxRefiltered
    /\ \E d \in 0..(MaxClock - now), logOk \in [1..Len(last.output) -> BOOLEAN] :
         LET r == filter_suppressions(config, last.output, now + d, logOk)
         IN  /\ now' = now + d
             /\ audit' = audit \o r.entries
             /\ last' = [kind |-> "refilter", first |-> last, t1 |-> now',
                         logOk |-> logOk, output |-> r.kept]
    /\ UNCHANGED config
    /\ UNCHANGED <<scanVars, fnVars>>

\* One call of get_stats.
GetStats ==
    /\ last = NoCall
    /\ \E ticks \in Ticks(2 * Len(config)) :
         /\ now + NTicks(ticks) <= MaxClock
         /\ now' = now + NTicks(ticks)
         /\ last' = [kind |-> "stats", t0 |-> now, t1 |-> now',
                     stats |-> get_stats(config, now, ticks)]
    /\ UNCHANGED <<config, audit>>
    /\ UNCHANGED <<scanVars, fnVars>>

NextSup ==
    \/ Tick
    \/ GetStats
    \/ FilterAgain
    \/ ShouldSuppress
    \/ FilterSuppressions

SpecSup == InitSup /\ [][NextSup]_vars

\* --------------------------------------------------- claims (suppression)
ExpiryPast(r, t) == r.expires # NoExpiry /\ r.expires < t
ExpiryNoneOrFuture(r, t) == r.expires = NoExpiry \/ r.expires > t
AllPatternsMatch(r, v) == \A k \in DOMAIN r.patterns : PatternMatches(r.patterns[k], v)

\* C7: a rule whose expiry lies in the past at the check never suppresses,
\* and the same rule with no expiry or an expiry in the future does suppress
\* the finding its patterns match.
C7_ExpiryDecides ==
    last.kind = "check"
    => /\ \A k \in DOMAIN config :
            ExpiryPast(config[k], last.t0) => last.by # k
       /\ (\E k \in DOMAIN config :
              /\ ExpiryNoneOrFuture(config[k], last.t1)
              /\ AllPatternsMatch(config[k], last.vuln))
            => last.result = "true"

\* C8: a finding is suppressed only by a rule every one of whose patterns
\* matches it: the single check's matching rule, every rule an audit entry
\* names, and every finding the batch filter removes.
C8_EveryPatternMatches ==
    /\ (last.kind = "check" /\ last.result = "true")
         => /\ last.by \in DOMAIN config
            /\ \A k \in DOMAIN config[last.by].patterns :
                 PatternMatches(config[last.by].patterns[k], last.vuln)
    /\ last.kind = "check"
         => \A e \in DOMAIN audit :
              \E j \in DOMAIN config :
                 /\ config[j].id = audit[e].rule
                 /\ audit[e].finding = last.vuln.id
                 /\ AllPatternsMatch(config[j], last.vuln)
    /\ last.kind = "filter"
         => /\ \A k \in DOMAIN last.input :
                 ~last.keep[k]
                 => \E j \in DOMAIN config : AllPatternsMatch(config[j], last.input[k])
            /\ \A e \in DOMAIN audit :
                 \E j \in DOMAIN config, k \in DOMAIN last.input :
                    /\ config[j].id = audit[e].rule
                    /\ audit[e].finding = last.input[k].id
                    /\ AllPatternsMatch(config[j], last.input[k])

\* A check that went past a rule with a matching and a non-matching pattern
\* and was suppressed by the next rule.
C8_Witness ==
    /\ last.kind = "check" /\ last.result = "true"
    /\ Len(config) = 2 /\ last.by = 2
    /\ ExpiryNoneOrFuture(config[1], last.t1)
    /\ \E k \in DOMAIN config[1].patterns : PatternMatches(config[1].patterns[k], last.vuln)
    /\ \E k \in DOMAIN config[1].patterns : ~PatternMatches(config[1].patterns[k], last.vuln)

\* C9: a finding matched by a non-expired rule is reported suppressed by the
\* single check and removed by the batch filter, whether or not the audit
\* entry could be written.
C9_AuditFailureNoEffect ==
    /\ last.kind = "check"
         => ((\E j \in DOMAIN config :
                 /\ ExpiryNoneOrFuture(config[j], last.t1)
                 /\ AllPatternsMatch(config[j], last.vuln))
             => last.result = "true")
    /\ last.kind = "filter"
         => \A k \in DOMAIN last.input :
              (\E j \in DOMAIN config :
                  /\ ExpiryNoneOrFuture(config[j], last.t0)
                  /\ AllPatternsMatch(config[j], last.input[k]))
              => ~last.keep[k]

\* The rules are evaluated in configuration order up to the first that
\* applies (all of them when none does).
EvaluatedInOrder ==
    LET n == IF last.by = 0 THEN Len(config) ELSE last.by
    IN  /\ last.evaluated = [k \in 1..n |-> k]
        /\ \A j \in 1..(n - 1) :
             ~(ExpiryNoneOrFuture(config[j], last.t1) /\ AllPatternsMatch(config[j], last.vuln))
        /\ last.by # 0
             => /\ AllPatternsMatch(config[last.by], last.vuln)
                /\ ~ExpiryPast(config[last.by], last.t1)

RECURSIVE NotSuppressed(_, _)
NotSuppressed(vs, t) ==
    IF vs = <<>> THEN <<>>
    ELSE (IF \E j \in DOMAIN config :
                ~ExpiryPast(config[j], t) /\ AllPatternsMatch(config[j], Head(vs))
          THEN <<>> ELSE <<Head(vs)>>) \o NotSuppressed(Tail(vs), t)

\* C11: the batch filter returns exactly the input's findings that are not
\* suppressed, in their original relative order, and reports the number
\* removed (whenever any was), which is the input length minus the output
\* length.
C11_FilterExact ==
    last.kind = "filter"
    => /\ last.output = NotSuppressed(last.input, last.t0)
       /\ Len(last.output) < Len(last.input)
            => last.reported = <<Len(last.input) - Len(last.output)>>
       /\ Len(last.output) = Len(last.input) => last.reported = <<>>

\* C27: the suppression statistics satisfy total = active + expired, every
\* loaded rule being counted once, as active or as expired, also when a
\* rule's expiry passes while the statistics are computed.
C27_StatsAddUp ==
    last.kind = "stats"
    => /\ last.stats.total = Len(config)
       /\ last.stats.total = last.stats.active + last.stats.expired

\* C29: the batch filter applied to its own output with the same rule set
\* returns that output unchanged, for any advance of the clock between the
\* passes and any outcome of audit logging in either pass.
C29_FilterIdempotent ==
    last.kind = "refilter" => last.output = last.first.output

\* ================================================== functions on their own
\* The scan and the suppression manager at rest.
IdleScan ==
    /\ impl = "cli" /\ target = "dir" /\ walk = <<>> /\ workers = 1
    /\ pc = "start" /\ tasks = <<>> /\ joined = 0 /\ vulns = <<>>
    /\ outcome = "none" /\ outOfOrder = FALSE /\ exit = NoExit
IdleSup == now = 0 /\ config = <<>> /\ audit = <<>> /\ last = NoCall

InitFn == IdleScan /\ IdleSup /\ call = NoFn /\ px = NoReq

\* The largest number of Critical findings whose weighted sum, 40 each, is
\* below 2^32.
WrapCount == 107374182

\* The per-severity counts of the finding lists summarised.
Counts == 0..MaxCount \cup {WrapCount}

\* Summary::from_vulnerabilities on a list with the given counts.
RiskScore ==
    /\ call = NoFn
    /\ \E critical, high, medium, low \in Counts :
         call' = [fn |-> "risk", in |-> <<critical, high, medium, low>>,
                  out |-> risk_score(critical, high, medium, low), grown |-> FALSE,
                  prev |-> 0]
    /\ UNCHANGED <<scanVars, supVars, px>>

\* The same on the list with one more finding of one severity.
RiskScoreMore ==
    /\ call.fn = "risk" /\ ~call.grown
    /\ \E i \in 1..4 :
         LET in == [call.in EXCEPT ![i] = @ + 1]
         IN  call' = [fn |-> "risk", in |-> in,
                      out |-> risk_score(in[1], in[2], in[3], in[4]), grown |-> TRUE,
                      prev |-> call.out]
    /\ UNCHANGED <<scanVars, supVars, px>>

\* ---- the secrets detectors
\* Text is a sequence of characters.  The characters a matched secret is
\* made of: no pattern of the detectors' tables admits a match of 13
\* characters or fewer with "..." in it.
SecretChars == {"A", "7"}
SecretTexts == UNION {[1..n -> SecretChars] : n \in (MaxSecretLen - 3)..MaxSecretLen}

\* "[REDACTED]"
REDACTED == <<"[", "R", "E", "D", "A", "C", "T", "E", "D", "]">>

\* if matched_text.len() > 10 { format!("{}...{}", &m[..5], &m[len-5..]) }
\* else { "[REDACTED]" }
redacted(matched_text) ==
    IF Len(matched_text) > 10
    THEN SubSeq(matched_text, 1, 5) \o <<".", ".", ".">>
         \o SubSeq(matched_text, Len(matched_text) - 4, Len(matched_text))
    ELSE REDACTED

\* The line the secret stands on: key = '<secret>'
LineOf(matched_text) == <<"k", "=", "'">> \o matched_text \o <<"'">>

\* The text fields of the finding SecretsDetector::scan (cli) builds for a
\* match: title, description, evidence snippet, secret_type.
cli_secret_fields(matched_text) ==
    [title |-> <<"Secret Detected: ", "name">>,
     description |-> <<"description", " found in code. Line: ", "1">>,
     snippet |-> <<"[SECRET REDACTED: ">> \o redacted(matched_text) \o <<"]">>,
     secret_type |-> <<"name">>]

\* The text fields of the Vulnerability the clones' secrets::detect builds:
\* title, description, code_snippet (the whole line).
clone_secret_fields(matched_text) ==
    [title |-> <<"name", " Found">>,
     description |-> <<"A secret of type ", "name", " was found.">>,
     code_snippet |-> LineOf(matched_text)]

\* One secrets detector reports one match.
SecretsScan ==
    /\ call = NoFn
    /\ \E i \in {"cli", "clone"}, m \in SecretTexts :
         call' = [fn |-> "secrets", impl |-> i, matched |-> m,
                  fields |-> IF i = "cli" THEN cli_secret_fields(m)
                             ELSE clone_secret_fields(m)]
    /\ UNCHANGED <<scanVars, supVars, px>>

\* ---- finding ids
\* The content given to a detector, as the number of pattern matches in each
\* of its units: the lines of a file, or the tool definitions of a JSON
\* document.
HitCounts == UpTo(0..MaxHits, MaxHits)

\* ids tag-first .. tag-(first + n - 1)
Numbered(tag, first, n) == [k \in 1..n |-> [tag |-> tag, n |-> first + k - 1]]

\* SecretsDetector::scan (cli): one vuln_counter for the whole call.
RECURSIVE secrets_ids_from(_, _, _)
secrets_ids_from(k, hits, vuln_counter) ==
    IF k > Len(hits) THEN <<>>
    ELSE Numbered("SEC", vuln_counter, hits[k])
         \o secrets_ids_from(k + 1, hits, vuln_counter + hits[k])

\* ToolPoisoningDetector::scan_tool_description: a vuln_counter of its own.
scan_tool_description_ids(nhits) == Numbered("TP", 1, nhits)

\* ToolPoisoningDetector::scan_mcp_tools: scan_tool_description per tool.
RECURSIVE scan_mcp_tools_ids(_, _)
scan_mcp_tools_ids(k, hits) ==
    IF k > Len(hits) THEN <<>>
    ELSE scan_tool_description_ids(hits[k]) \o scan_mcp_tools_ids(k + 1, hits)

\* The clones' detect: the id is a constant.
RECURSIVE clone_ids(_, _, _)
clone_ids(tag, k, hits) ==
    IF k > Len(hits) THEN <<>>
    ELSE [j \in 1..hits[k] |-> [tag |-> tag, n |-> 1]] \o clone_ids(tag, k + 1, hits)

IdDetectors == {"cli_secrets", "cli_tool_poisoning", "clone_secrets"}

\* One detector call on one file: the ids of the findings it returns.
DetectorIds ==
    /\ call = NoFn
    /\ \E d \in IdDetectors, hits \in HitCounts :
         call' = [fn |-> "ids", det |-> d, hits |-> hits,
                  tag |-> IF d = "cli_tool_poisoning" THEN "TP" ELSE "SEC",
                  ids |-> CASE d = "cli_secrets" -> secrets_ids_from(1, hits, 1)
                            [] d = "cli_tool_poisoning" -> scan_mcp_tools_ids(1, hits)
                            [] d = "clone_secrets" -> clone_ids("SEC", 1, hits)]
    /\ UNCHANGED <<scanVars, supVars, px>>

\* ---- structural detectors
\* The extension of the file path: Python, JavaScript, another, none.
Extensions == {"py", "js", "txt", "none"}
\* What Parser::parse returns: Some(tree) or None.
ParseResults == {"tree", "none"}

\* SemanticEngine::analyze_python: parse(..).context(..)? and the queries.
analyze_python(parse, hits) ==
    IF parse = "none" THEN [kind |-> "err", n |-> 0]
    ELSE [kind |-> "ok", n |-> hits]

\* command_injection::detect of mcp-sentinel-clone: extension test,
\* parse(..).unwrap(), the query's matches.
command_injection_detect(ext, parse, hits) ==
    IF ext \notin {"py", "js"} THEN [kind |-> "ok", n |-> 0]
    ELSE IF parse = "none" THEN [kind |-> "panic", n |-> 0]
    ELSE [kind |-> "ok", n |-> hits]

\* One call of a structural detector; hits: the matches its queries have in
\* the tree, when there is one.
StructuralScan ==
    /\ call = NoFn
    /\ \E d \in {"analyze_python", "command_injection"}, ext \in Extensions,
          parse \in ParseResults, hits \in 0..MaxHits :
         /\ d = "analyze_python" => ext = "py"
         /\ call' = [fn |-> "structural", det |-> d, ext |-> ext, parse |-> parse,
                     hits |-> hits,
                     out |-> IF d = "analyze_python" THEN analyze_python(parse, hits)
                             ELSE command_injection_detect(ext, parse, hits)]
    /\ UNCHANGED <<scanVars, supVars, px>>

\* ---- taint analysis
\* The rows on which sources and sinks are found.
TaintRows == 0..MaxHits
\* What find_python_taint_sources / find_python_taint_sinks return, as rows.
TaintPoints == UpTo(TaintRows, MaxHits)

\* A reachability test that asks the sink to come after the source.
variable_reaches_sink_after(source_row, sink_row) == source_row < sink_row

\* variable_reaches_sink: "always return true for now"
variable_reaches_sink(source_row, sink_row) == TRUE

\* The findings of the inner loop, for source i, from sink j on.
RECURSIVE taint_sinks_from(_, _, _, _)
taint_sinks_from(i, j, sources, sinks) ==
    IF j > Len(sinks) THEN <<>>
    ELSE (IF variable_reaches_sink(sources[i], sinks[j])
          THEN <<[severity |-> "Critical", source |-> i, sink |-> j,
                  location_line |-> sinks[j] + 1,
                  code_snippet |-> <<"Source: line ", sources[i] + 1,
                                     ", Sink: line ", sinks[j] + 1>>]>>
          ELSE <<>>)
         \o taint_sinks_from(i, j + 1, sources, sinks)

\* The outer loop, from source i on.
RECURSIVE taint_sources_from(_, _, _)
taint_sources_from(i, sources, sinks) ==
    IF i > Len(sources) THEN <<>>
    ELSE taint_sinks_from(i, 1, sources, sinks) \o taint_sources_from(i + 1, sources, sinks)

detect_python_tainted_dataflow(sources, sinks) == taint_sources_from(1, sources, sinks)

\* The taint analysis of one file.
TaintScan ==
    /\ call = NoFn
    /\ \E sources \in TaintPoints, sinks \in TaintPoints :
         call' = [fn |-> "taint", sources |-> sources, sinks |-> sinks,
                  out |-> detect_python_tainted_dataflow(sources, sinks)]
    /\ UNCHANGED <<scanVars, supVars, px>>

\* ---- a directory scan as one step, on a tree with files of every kind
\* The files a tree can hold beside those of Entries: a text file above the
\* size limit holding a key, a NUL-padded file that is valid UTF-8 and holds
\* a key, a binary file that is not valid UTF-8, and a text file holding a
\* key under an excluded path.
TreeEntries ==
    Entries
    \cup {Entry("file", TRUE, "secret", TRUE, FALSE, FALSE),
          Entry("file", TRUE, "secret", FALSE, TRUE, FALSE),
          Entry("file", FALSE, "empty", FALSE, TRUE, FALSE),
          Entry("file", TRUE, "secret", FALSE, FALSE, TRUE)}

\* The files the orchestrator is handed, or spawns a task for.
Handed(i, w) ==
    IF i = "cli" THEN discover_files(w)
    ELSE IF i = "engine" THEN files_to_scan(w)
    ELSE legacy_spawned(w)

\* The findings of the handed files from position k on, in the order the
\* files are scanned (cli) or joined (engine, legacy), no detector failing.
RECURSIVE Collected(_, _, _, _)
Collected(i, w, fs, k) ==
    IF k > Len(fs) THEN <<>>
    ELSE LET r == IF i = "cli"
                  THEN scan_dir_entry(w[fs[k]], fs[k], DetectorsOf(i), {})
                  ELSE scan_file(w[fs[k]], fs[k], DetectorsOf(i), {})
         IN  Merge(r.vulns, Collected(i, w, fs, k + 1))

\* scan_target on a directory (cli) / Scanner::scan_directory (engine, legacy).
DirectoryScan ==
    /\ call = NoFn
    /\ \E i \in Impls, w \in UpTo(TreeEntries, MaxFiles) :
         LET failed == i = "legacy" /\ FirstErr(w) # 0
         IN  call' = [fn |-> "scan", impl |-> i, tree |-> w,
                      files |-> Handed(i, w),
                      outcome |-> IF failed THEN "WalkError" ELSE "ok",
                      vulns |-> IF failed THEN <<>>
                                ELSE Collected(i, w, Handed(i, w), 1)]
    /\ UNCHANGED <<scanVars, supVars, px>>

\* ---- the proxy's scan against the directory scan
\* file_path.ends_with(".py")
ends_with_py(file_path) == file_path \in {"a.py"}

\* The engine's secrets::detect and command_injection::detect on a content
\* under a path: the latter returns at once unless the path ends in ".py".
\* The findings are given without their path.
detect_under(d, c, file_path) ==
    LET found == IF d = "command_injection" /\ ~ends_with_py(file_path)
                 THEN <<>>
                 ELSE Detect(d, c, 1)
    IN  [k \in DOMAIN found |-> [det |-> found[k].det, line |-> found[k].line,
                                 severity |-> found[k].severity]]

\* scan_tool_call: the findings it warns about for a code string.
scan_tool_call_findings(code) ==
    detect_under("secrets", code, "proxy_tool_call")
    \o detect_under("command_injection", code, "proxy_tool_call")

\* scan_file (engine) on the file a.py: its secrets and command-injection
\* findings.
scan_file_findings(code) ==
    detect_under("secrets", code, "a.py")
    \o detect_under("command_injection", code, "a.py")

\* One code string given to the proxy and, as a.py, to the directory scan.
ProxyAndScan ==
    /\ call = NoFn
    /\ \E code \in Contents :
         call' = [fn |-> "proxy_scan", code |-> code,
                  proxy |-> scan_tool_call_findings(code),
                  scan |-> scan_file_findings(code)]
    /\ UNCHANGED <<scanVars, supVars, px>>

\* ---- a structural query
\* Where a match of the os.system query starts: the zero-based row and
\* column of the call expression.
MatchStarts == [row : 0..1, column : 0..1]

\* The captures of one match, in pattern order: @module on `os`, @func on
\* `system` (3 bytes on) and @args on the argument list (9 bytes on).
captures(match_) ==
    <<[name |-> "module", row |-> match_.row, column |-> match_.column],
      [name |-> "func", row |-> match_.row, column |-> match_.column + 3],
      [name |-> "args", row |-> match_.row, column |-> match_.column + 9]>>

\* for capture in match_.captures { .. vulnerabilities.push(vuln) }
of_captures(cs) ==
    [k \in DOMAIN cs |-> [line |-> cs[k].row + 1, column |-> cs[k].column + 1,
                          capture |-> cs[k].name]]

\* SemanticEngine::detect_python_command_injection:
\* for match_ in matches { for capture in match_.captures { .. } }
RECURSIVE detect_python_command_injection(_)
detect_python_command_injection(ms) ==
    IF ms = <<>> THEN <<>>
    ELSE of_captures(captures(Head(ms)))
         \o detect_python_command_injection(Tail(ms))

\* The query run on a tree in which it has the given matches.
CommandInjectionQuery ==
    /\ call = NoFn
    /\ \E ms \in UpTo(MatchStarts, MaxHits) :
         call' = [fn |-> "query", matches |-> ms,
                  out |-> detect_python_command_injection(ms)]
    /\ UNCHANGED <<scanVars, supVars, px>>

\* ---- pattern detectors
\* A content of nl lines against a table of np entries: which entry's regex
\* matches which line.
MatchTables(nl, np) == [1..nl -> [1..np -> BOOLEAN]]

\* The (line, entry) positions in the order the loops visit them.
LineMajor(nl, np) ==
    [k \in 1..(nl * np) |-> [line |-> ((k - 1) \div np) + 1, entry |-> ((k - 1) % np) + 1]]
EntryMajor(nl, np) ==
    [k \in 1..(nl * np) |-> [line |-> ((k - 1) % nl) + 1, entry |-> ((k - 1) \div nl) + 1]]

\* SecretsDetector::scan, PromptInjectionDetector::scan (cli):
\* `for pattern in &self.patterns { for (line_num, line) in content.lines() ..`
\* pushes a finding at each match; the findings of check_sensitive_paths /
\* check_suspicious_sequences, which have no location, are appended.
scan_patterns(m, nl, np, extra) ==
    SelectSeq(EntryMajor(nl, np), LAMBDA q : m[q.line][q.entry])
    \o [k \in 1..extra |-> [line |-> 0, entry |-> 0]]

\* secrets::detect (engine, legacy):
\* `for (line_num, line) in content.lines() { for pattern in SECRET_PATTERNS ..`
detect_patterns(m, nl, np) ==
    SelectSeq(LineMajor(nl, np), LAMBDA q : m[q.line][q.entry])

\* One call of a pattern detector on one content.
PatternScan ==
    /\ call = NoFn
    /\ \E i \in {"cli", "clone"}, nl \in 0..MaxHits, np \in 1..MaxHits, extra \in 0..1 :
         \E m \in MatchTables(nl, np) :
            /\ i = "clone" => extra = 0
            /\ call' = [fn |-> "patterns", impl |-> i, lines |-> nl, entries |-> np,
                        m |-> m,
                        out |-> IF i = "cli" THEN scan_patterns(m, nl, np, extra)
                                ELSE detect_patterns(m, nl, np)]
    /\ UNCHANGED <<scanVars, supVars, px>>

\* ---- the ScanResult object
\* The finding lists a result is created from.
SeverityLists == UpTo([severity : Severities], MaxCount)

\* ScanResult::new
ScanResult_new(vulnerabilities) ==
    [vulnerabilities |-> vulnerabilities,
     summary |-> from_vulnerabilities(vulnerabilities)]

\* filter_by_severity with the summary left as it was.
filter_by_severity_stale(r, min_severity) ==
    [r EXCEPT !.vulnerabilities = retain(@, min_severity)]

\* ScanResult::filter_by_severity
filter_by_severity(r, min_severity) ==
    LET kept == retain(r.vulnerabilities, min_severity)
    IN  [r EXCEPT !.vulnerabilities = kept,
                  !.summary = from_vulnerabilities(kept)]

ResultNew ==
    /\ call = NoFn
    /\ \E vs \in SeverityLists :
         call' = [fn |-> "result", result |-> ScanResult_new(vs),
                  filters |-> 0, removed |-> FALSE]
    /\ UNCHANGED <<scanVars, supVars, px>>

ResultFilter ==
    /\ call.fn = "result" /\ call.filters < MaxFilters
    /\ \E min_severity \in Severities :
         LET r == filter_by_severity(call.result, min_severity)
         IN  call' = [fn |-> "result", result |-> r,
                      filters |-> call.filters + 1,
                      removed |-> Len(r.vulnerabilities)
                                    < Len(call.result.vulnerabilities)]
    /\ UNCHANGED <<scanVars, supVars, px>>

NextFn ==
    \/ ProxyAndScan
    \/ CommandInjectionQuery
    \/ PatternScan
    \/ ResultNew
    \/ ResultFilter
    \/ DirectoryScan
    \/ RiskScore
    \/ RiskScoreMore
    \/ SecretsScan
    \/ DetectorIds
    \/ StructuralScan
    \/ TaintScan

SpecFn == InitFn /\ [][NextFn]_vars

\* ------------------------------------------------- claims (functions)
\* min(100, 40*critical + 20*high + 10*medium + 5*low) in unbounded integers:
\* a count beyond what alone reaches 100 adds nothing.
ClaimedRiskScore(critical, high, medium, low) ==
    LET Cap(n, k) == IF n > k THEN k ELSE n
        raw == Cap(critical, 3) * 40 + Cap(high, 5) * 20 + Cap(medium, 10) * 10
               + Cap(low, 20) * 5
    IN  IF raw < 100 THEN raw ELSE 100

\* C14: the risk score equals min(100, 40*critical + 20*high + 10*medium +
\* 5*low); it lies in [0, 100] and does not decrease when one severity count
\* increases (2 critical + 1 high + 1 medium + 1 low gives 100).
C14_RiskScore ==
    call.fn = "risk"
    => /\ call.out = ClaimedRiskScore(call.in[1], call.in[2], call.in[3], call.in[4])
       /\ call.out \in 0..100
       /\ call.grown => call.out >= call.prev
       /\ call.in = <<2, 1, 1, 1>> => call.out = 100

\* Text hay has text needle in it.
Contains(hay, needle) ==
    \E k \in 0..(Len(hay) - Len(needle)) :
       SubSeq(hay, k + 1, k + Len(needle)) = needle

\* C15: no text field of a finding of the secrets detector holds the full
\* matched secret; a match longer than 10 characters appears only as its
\* first 5 and last 5 characters around "...", a shorter one only as
\* "[REDACTED]".
C15_SecretRedacted ==
    call.fn = "secrets"
    => /\ \A f \in DOMAIN call.fields : ~Contains(call.fields[f], call.matched)
       /\ \E f \in DOMAIN call.fields :
            Contains(call.fields[f],
                     IF Len(call.matched) > 10
                     THEN SubSeq(call.matched, 1, 5) \o <<".", ".", ".">>
                          \o SubSeq(call.matched, Len(call.matched) - 4, Len(call.matched))
                     ELSE <<"[", "R", "E", "D", "A", "C", "T", "E", "D", "]">>)

\* C16: the ids of the findings one detector call returns are pairwise
\* distinct: the k-th is the detector's tag with the counter value k.
C16_IdsDistinct ==
    call.fn = "ids"
    => /\ \A i, j \in DOMAIN call.ids : i # j => call.ids[i] # call.ids[j]
       /\ \A k \in DOMAIN call.ids : call.ids[k] = [tag |-> call.tag, n |-> k]

\* C17: a structural detector given content that fails to parse, or a file
\* whose extension is missing or of an unsupported language, returns an
\* empty finding list: no error, no panic.
C17_ParseFailureEmpty ==
    (/\ call.fn = "structural"
     /\ call.parse = "none" \/ call.ext \notin {"py", "js"})
    => call.out = [kind |-> "ok", n |-> 0]

\* C18: for S sources and K sinks in a file the taint analysis reports
\* exactly S*K findings, one for each (source, sink) pair, each Critical and
\* each naming the source's line and the sink's line.
C18_TaintPairs ==
    call.fn = "taint"
    => /\ Len(call.out) = Len(call.sources) * Len(call.sinks)
       /\ \A i \in DOMAIN call.sources, j \in DOMAIN call.sinks :
            Cardinality({k \in DOMAIN call.out :
                            /\ call.out[k].source = i /\ call.out[k].sink = j}) = 1
       /\ \A k \in DOMAIN call.out :
            /\ call.out[k].severity = "Critical"
            /\ call.out[k].code_snippet[2] = call.sources[call.out[k].source] + 1
            /\ call.out[k].code_snippet[4] = call.sinks[call.out[k].sink] + 1
            /\ call.out[k].location_line = call.sinks[call.out[k].sink] + 1

\* Two sources, the second below both sinks, and two sinks: four findings.
C18_Witness ==
    /\ call.fn = "taint"
    /\ Len(call.sources) = 2 /\ Len(call.sinks) = 2
    /\ call.sources[2] > call.sinks[1] /\ call.sources[2] > call.sinks[2]
    /\ Len(call.out) = 4

\* A 0-byte file of the tree scanned.
ZeroByte(e) == e.kind = "file" /\ e.readable /\ e.content = "empty"

\* C21: file discovery never hands the orchestrator a binary file or a file
\* larger than the configured maximum size, and a scan of a directory holding
\* a 0-byte file and an oversize file completes successfully with zero
\* findings attributed to either file.
C21_NoBinaryNoOversize ==
    call.fn = "scan"
    => /\ \A k \in Range(call.files) :
            ~call.tree[k].binary /\ ~call.tree[k].over
       /\ (/\ \A k \in DOMAIN call.tree : call.tree[k].kind = "file"
           /\ \E k \in DOMAIN call.tree : ZeroByte(call.tree[k])
           /\ \E k \in DOMAIN call.tree : call.tree[k].over)
          => /\ call.outcome = "ok"
             /\ \A j \in DOMAIN call.vulns :
                  /\ ~ZeroByte(call.tree[call.vulns[j].file])
                  /\ ~call.tree[call.vulns[j].file].over

\* C22: no file whose path contains a configured path-exclusion pattern is
\* scanned or contributes a finding to the result.
C22_ExcludedNeverScanned ==
    call.fn = "scan"
    => \A k \in DOMAIN call.tree :
          (call.tree[k].kind = "file" /\ call.tree[k].excluded)
          => /\ k \notin Range(call.files)
             /\ \A j \in DOMAIN call.vulns : call.vulns[j].file # k

\* C23: after a scan result is created and after every severity filter
\* applied to it, its summary is the summary of its current finding list:
\* total_issues is the list's length and the sum of the four counts, each
\* count is the number of findings of that severity, and the risk score is
\* the score of those counts.
C23_SummaryDerived ==
    call.fn = "result"
    => LET vs == call.result.vulnerabilities
           sm == call.result.summary
       IN  /\ sm = from_vulnerabilities(vs)
           /\ sm.total_issues = Len(vs)
           /\ sm.total_issues = sm.critical + sm.high + sm.medium + sm.low
           /\ \A s \in Severities :
                Cardinality({k \in DOMAIN vs : vs[k].severity = s})
                  = (CASE s = "Critical" -> sm.critical
                       [] s = "High" -> sm.high
                       [] s = "Medium" -> sm.medium
                       [] s = "Low" -> sm.low)
           /\ sm.risk_score = risk_score(sm.critical, sm.high, sm.medium, sm.low)

\* A result that kept some findings after a filter removed others.
C23_Witness ==
    /\ call.fn = "result" /\ call.filters = MaxFilters /\ call.removed
    /\ call.result.vulnerabilities # <<>>
    /\ call.result.summary.total_issues = Len(call.result.vulnerabilities)

\* C25: a pattern detector's scan returns exactly one finding for each
\* (line, entry) pair in which the entry matches the line, and no other, and
\* emits the findings in line order: those of an earlier line before those
\* of a later line.
C25_LineByLine ==
    call.fn = "patterns"
    => /\ \A l \in 1..call.lines, e \in 1..call.entries :
            Cardinality({k \in DOMAIN call.out :
                           call.out[k] = [line |-> l, entry |-> e]})
              = IF call.m[l][e] THEN 1 ELSE 0
       /\ \A k \in DOMAIN call.out :
            call.out[k].line \in 1..call.lines /\ call.out[k].entry \in 1..call.entries
       /\ \A j1, j2 \in DOMAIN call.out :
            j1 < j2 => call.out[j1].line <= call.out[j2].line

\* C26: every match of a structural query yields exactly one finding, so
\* the query contributes as many findings as it has matches, and each
\* finding carries the line and column of the matched source span.
C26_OneFindingPerMatch ==
    call.fn = "query"
    => /\ Len(call.out) = Len(call.matches)
       /\ \A k \in DOMAIN call.matches :
            /\ k \in DOMAIN call.out
            /\ call.out[k].line = call.matches[k].row + 1
            /\ call.out[k].column = call.matches[k].column + 1

\* C30: for any code string, the findings the proxy logs for a tool call
\* carrying it are the secrets and command-injection findings a directory
\* scan reports for a Python file with that content, the path apart.
C30_ProxyMatchesScan ==
    call.fn = "proxy_scan" => call.proxy = call.scan

\* ================================================================ the proxy
\* The entries of a request's tool_calls array: one without a "code" string,
\* or one whose code is clean, holds an API key, or calls os.system.
ToolCalls == {"nocode", "clean", "secret", "os_system"}

\* What serde_json::from_slice and json.get("tool_calls") give for the body:
\* not JSON, JSON without a tool_calls array, JSON with one.
Bodies ==
    [json : {"invalid", "other"}, tool_calls : {<<>>}]
    \cup [json : {"calls"}, tool_calls : UpTo(ToolCalls, MaxHits)]

\* A request: whether its body can be read, the body, whether
\* "http://localhost:8080" + path_and_query still parses as a Uri (it does
\* not when the result is longer than a Uri may be), and whether the
\* upstream answers.
Requests == [bodyOk : BOOLEAN, body : Bodies, uriOk : BOOLEAN, upstreamOk : BOOLEAN]

\* scan_tool_call: secrets::detect and command_injection::detect on the code
\* under the path "proxy_tool_call"; an Err of either is skipped.  The
\* command-injection detector returns nothing for a path that does not end
\* in ".py".  The result is the number of findings warned about.
scan_tool_call(code, fails) ==
    LET file_path == "proxy_tool_call"
        secrets == IF "secrets" \notin fails /\ code = "secret" THEN 1 ELSE 0
        command_injection ==
            IF "command_injection" \notin fails /\ file_path = "proxy_tool_call.py"
               /\ code = "os_system"
            THEN 1 ELSE 0
    IN  secrets + command_injection

\* A rebuilt request that has lost its body.
rebuilt_body_empty(bytes) == [json |-> "invalid", tool_calls |-> <<>>]

\* Request::from_parts(parts, Body::from(bytes))
rebuilt_body(bytes) == bytes

InitProxy == IdleScan /\ IdleSup /\ call = NoFn /\ px = NoReq

\* A request arrives at the handler.
PxReceive ==
    /\ px = NoReq
    /\ \E r \in Requests :
         px' = [pc |-> "read", req |-> r, i |-> 1, scanned |-> <<>>, warned |-> 0,
                errors |-> FALSE, forwarded |-> FALSE, sent |-> r.body, status |-> 0]
    /\ UNCHANGED <<scanVars, supVars, call>>

\* to_bytes(body, usize::MAX)
PxReadBody ==
    /\ px.pc = "read"
    /\ px' = IF px.req.bodyOk
             THEN [px EXCEPT !.pc = "scan"]
             ELSE [px EXCEPT !.pc = "done", !.status = 400]
    /\ UNCHANGED <<scanVars, supVars, call>>

\* One iteration of `for tool_call in tool_calls`.
PxScanNext ==
    /\ px.pc = "scan" /\ px.i <= Len(px.req.body.tool_calls)
    /\ LET code == px.req.body.tool_calls[px.i]
       IN  IF code = "nocode"
           THEN px' = [px EXCEPT !.i = @ + 1]
           ELSE \E fails \in SUBSET {"secrets", "command_injection"} :
                  px' = [px EXCEPT !.i = @ + 1,
                                   !.scanned = Append(@, px.i),
                                   !.warned = @ + scan_tool_call(code, fails),
                                   !.errors = @ \/ fails # {}]
    /\ UNCHANGED <<scanVars, supVars, call>>

\* After the loop: rebuild the request, parse the upstream URI, forward.
PxForward ==
    /\ px.pc = "scan" /\ px.i > Len(px.req.body.tool_calls)
    /\ px' = IF ~px.req.uriOk
             THEN [px EXCEPT !.pc = "done", !.status = 400]
             ELSE [px EXCEPT !.pc = "done", !.forwarded = TRUE,
                             !.sent = rebuilt_body(px.req.body),
                             !.status = IF px.req.upstreamOk THEN 200 ELSE 500]
    /\ UNCHANGED <<scanVars, supVars, call>>

NextProxy ==
    \/ PxReceive
    \/ PxReadBody
    \/ PxScanNext
    \/ PxForward

SpecProxy == InitProxy /\ [][NextProxy]_vars

\* ------------------------------------------------------- claims (proxy)
\* The positions of the tool_calls entries that have a code string.
CodePositions(tool_calls) ==
    SelectSeq([k \in DOMAIN tool_calls |-> k], LAMBDA k : tool_calls[k] # "nocode")

\* C20 as stated: every request whose body can be read has each of its
\* tool_calls[i].code strings scanned before it is forwarded, and is then
\* forwarded with its body unchanged, findings and detector errors or not.
C20_AlwaysForwarded ==
    /\ (px.pc # "idle" /\ px.forwarded)
         => px.scanned = CodePositions(px.req.body.tool_calls)
    /\ (px.pc = "done" /\ px.req.bodyOk)
         => px.forwarded /\ px.sent = px.req.body

\* C20 amended: such a request has each code string scanned first and is
\* then forwarded with its body unchanged, findings and detector errors or
\* not, unless the upstream URI made from its path does not parse: then it
\* is answered 400 and not forwarded, findings or not.
C20_ForwardedUnlessBadUri ==
    /\ (px.pc # "idle" /\ px.forwarded)
         => px.scanned = CodePositions(px.req.body.tool_calls)
    /\ (px.pc = "done" /\ px.req.bodyOk)
         => /\ px.scanned = CodePositions(px.req.body.tool_calls)
            /\ px.req.uriOk => px.forwarded /\ px.sent = px.req.body
            /\ ~px.req.uriOk => ~px.forwarded /\ px.status = 400

\* A request with two code strings, one holding a secret that was warned
\* about and one whose detector call failed, forwarded.
C20_Witness ==
    /\ px.pc = "done" /\ px.forwarded
    /\ Len(px.scanned) = 2 /\ px.warned > 0 /\ px.errors
    /\ px.sent = px.req.body

====
